---- MODULE Spec2Model ----
(***************************************************************************)
(* A model of the CIFAR-100 training scripts: the EarlyStopping object of  *)
(* transfer_cnn.py, the 80/20 split, the one-epoch train and validate      *)
(* functions, the training loop of main() in its three variants            *)
(* (simple_cnn, soph_cnn, transfer_cnn) and the evaluation stage           *)
(* (eval_cifar100.py) that follows it.                                     *)
(*                                                                         *)
(* Losses are Python floats.  A float is modelled as a record              *)
(*   [kind |-> "fin", num |-> n, den |-> d]   the value n/d  (d > 0)       *)
(*   [kind |-> "inf", ...]                    +infinity (np.inf)           *)
(*   [kind |-> "nan", ...]                    not-a-number                 *)
(* with IEEE comparison: every ordered comparison with NaN is false.       *)
(* Finite losses are counted in hundredths (100 stands for 1.0).           *)
(***************************************************************************)
EXTENDS Integers, Sequences, FiniteSets, TLC

\* ------------------------------------------------------------------ bounds
MaxLossStep == 2
MaxDeltaStep == 1
MaxTol == 3
MaxCalls == 5
\* the 80/20 split: the largest partition size
MaxTotal == 5
\* the training loop: CONFIG["epochs"], the batches of a loader, the samples
\* of a batch (CONFIG["batch_size"]) and the tolerance main() constructs its
\* EarlyStopping with, all scaled down
MaxEpochs == 2
MaxBatches == 2
BatchSize == 1
MainTol == 1

\* ------------------------------------------------------------------ floats
Fin(n) == [kind |-> "fin", num |-> n, den |-> 1]
PosInf == [kind |-> "inf", num |-> 0, den |-> 1]
NaN == [kind |-> "nan", num |-> 0, den |-> 1]

IsFin(a) == a.kind = "fin"
IsNaN(a) == a.kind = "nan"

\* a + b on floats
FAdd(a, b) ==
    IF IsNaN(a) \/ IsNaN(b) THEN NaN
    ELSE IF a.kind = "inf" \/ b.kind = "inf" THEN PosInf
    ELSE [kind |-> "fin", num |-> a.num * b.den + b.num * a.den, den |-> a.den * b.den]

\* a < b on floats
FLt(a, b) ==
    IF IsNaN(a) \/ IsNaN(b) THEN FALSE
    ELSE IF a.kind = "inf" THEN FALSE
    ELSE IF b.kind = "inf" THEN TRUE
    ELSE a.num * b.den < b.num * a.den

\* a >= b on floats
FGe(a, b) ==
    IF IsNaN(a) \/ IsNaN(b) THEN FALSE
    ELSE IF a.kind = "inf" THEN TRUE
    ELSE IF b.kind = "inf" THEN FALSE
    ELSE a.num * b.den >= b.num * a.den

\* the finite losses fed to the object: 0.90, 0.95, 1.00, ...
LossGrid == {Fin(90 + 5 * k) : k \in 0..MaxLossStep}
Losses == LossGrid \cup {PosInf, NaN}
\* the min_delta values the object is constructed with: -0.1, 0.0, 0.1, ...
Deltas == {Fin(10 * k) : k \in (0 - 1)..MaxDeltaStep}
Tolerances == 0..MaxTol

VARIABLES
    \* EarlyStopping fields
    tolerance, min_delta, counter, min_validation_loss,
    \* history: the arguments and return values of the calls made on the
    \* object directly, the branch each of them took, and the fields as they
    \* were before the last call
    fed, rets, took, pre_counter, pre_min,
    \* the split: len(trainset), the two sizes, the two index lists, position
    total_len, train_size, val_size, train_idx, val_idx, split_pc,
    \* main(): the variant, the loader lengths, position, loop index, whether
    \* the loop was left by the early-stopping break
    variant, n_train, n_val, pc, epoch, stopped,
    \* the model object: parameters (the number of optimizer steps that made
    \* them), the training-mode flag, the gradient buffers
    params, training, grads,
    \* locals of one train/validate call: batch index, position in the batch,
    \* the operations executed so far in the call, the running metrics, the
    \* current batch's correct count and loss
    batch_i, tpc, oplog, running_loss, correct, total, batch_correct, loss,
    \* locals of main(): the results of train and validate, best_val_acc
    train_loss, train_acc, val_loss, val_acc, best_val_acc,
    \* history: how the last train/validate call ended, with its running
    \* metrics as they were at that point
    returned,
    \* history: the dictionary the last wandb.log call of the epoch carried
    last_log,
    \* StepLR steps taken; tracker calls: watch registered, logs, uploads, finish
    sched_steps, watched, n_logs, n_uploads, finished,
    \* best_model.pth: whether this run wrote it, the parameters it holds and
    \* the epoch that wrote it; the number of torch.save calls
    artifact, n_saves,
    \* history: the model as the last validate call found it; for the last
    \* finished epoch, the largest val_acc of the epochs before it, its own
    \* val_acc and whether its checkpoint step wrote the artifact
    val_pre, max_before, last_acc, saved_last,
    \* the evaluation stage: len(testloader), where best_model.pth was loaded
    \* from, the predictions and accuracy of the clean test set, the
    \* out-of-distribution evaluation, whether submission_ood.csv is written
    n_test, loaded, predictions, clean_accuracy, ood, submission

esvars == <<tolerance, min_delta, counter, min_validation_loss, fed, rets, took,
           pre_counter, pre_min>>
splitvars == <<total_len, train_size, val_size, train_idx, val_idx, split_pc>>
cfgvars == <<variant, n_train, n_val>>
modelvars == <<params, training, grads>>
callvars == <<batch_i, tpc, oplog, running_loss, correct, total, batch_correct, loss>>
resultvars == <<train_loss, train_acc, val_loss, val_acc, returned, last_log>>
trackervars == <<watched, n_logs, n_uploads, finished>>
ckptvars == <<best_val_acc, artifact, n_saves>>
histvars == <<val_pre, max_before, last_acc, saved_last>>
\* what train and validate leave alone besides the model and the results
mainrest == <<cfgvars, epoch, stopped, sched_steps, trackervars, ckptvars, histvars>>
evalvars == <<n_test, loaded, predictions, clean_accuracy, ood, submission>>
mainvars == <<cfgvars, pc, epoch, stopped, sched_steps, modelvars, callvars, resultvars,
              trackervars, ckptvars, histvars, evalvars>>

vars == <<esvars, splitvars, mainvars>>

\* a / n on floats, n a positive integer
FDiv(a, n) ==
    IF IsFin(a) THEN [kind |-> "fin", num |-> a.num, den |-> a.den * n] ELSE a

\* the split and main() not running
SplitIdle ==
    /\ total_len = 0 /\ train_size = 0 /\ val_size = 0
    /\ train_idx = <<>> /\ val_idx = <<>> /\ split_pc = "off"

NoArtifact == [written |-> FALSE, params |-> 0, epoch |-> 0]
NoSnapshot == [params |-> 0, training |-> TRUE, grads |-> "none"]
\* no call of train/validate has ended in the current epoch
NoReturn == [call |-> "none", raised |-> FALSE, sum |-> Fin(0), correct |-> 0,
             total |-> 0, batches |-> 0]

\* no wandb.log call made in the current epoch
NoLog == [epoch |-> 0]

\* the evaluation stage not begun
NoOod == [ran |-> FALSE, params |-> 0]
EvalIdle ==
    /\ n_test = 0 /\ loaded = "no" /\ predictions = <<>>
    /\ clean_accuracy = Fin(0) /\ ood = NoOod /\ submission = FALSE

MainIdle ==
    /\ EvalIdle
    /\ variant = "none" /\ pc = "off" /\ epoch = 0 /\ n_train = 0 /\ n_val = 0
    /\ stopped = FALSE /\ n_saves = 0
    /\ params = 0 /\ training = TRUE /\ grads = "none"
    /\ batch_i = 0 /\ tpc = "off" /\ oplog = <<>>
    /\ running_loss = Fin(0) /\ correct = 0 /\ total = 0
    /\ batch_correct = 0 /\ loss = Fin(0)
    /\ train_loss = Fin(0) /\ train_acc = Fin(0) /\ val_loss = Fin(0) /\ val_acc = Fin(0)
    /\ returned = NoReturn /\ last_log = NoLog
    /\ best_val_acc = Fin(0) /\ sched_steps = 0
    /\ watched = FALSE /\ n_logs = 0 /\ n_uploads = 0 /\ finished = FALSE
    /\ artifact = NoArtifact
    /\ val_pre = NoSnapshot /\ max_before = Fin(0) /\ last_acc = Fin(0) /\ saved_last = FALSE

\* ---------------------------------------------------------- EarlyStopping
\* EarlyStopping.__init__(tolerance, min_delta)
ESInit(tol, md) ==
    /\ tolerance = tol
    /\ min_delta = md
    /\ counter = 0
    /\ min_validation_loss = PosInf
    /\ fed = <<>>
    /\ rets = <<>>
    /\ took = <<>>
    /\ pre_counter = 0
    /\ pre_min = PosInf

\* a plausible slip: the margin forgotten
ImprovesNoDelta(v) == FLt(v, min_validation_loss)
\* a plausible slip: a tie counted as an improvement
ImprovesOrTie(v) == ~IsNaN(v) /\ ~FLt(min_validation_loss, FAdd(v, min_delta))

\* the if-condition: (validation_loss + self.min_delta) < self.min_validation_loss
Improves(v) == FLt(FAdd(v, min_delta), min_validation_loss)

\* the elif-condition: (validation_loss + self.min_delta) >= self.min_validation_loss
NotImproves(v) == FGe(FAdd(v, min_delta), min_validation_loss)

\* a plausible slip: strict comparison with the tolerance
StopSignalStrict(c) == c > tolerance

\* if self.counter >= self.tolerance: return True
StopSignal(c) == c >= tolerance

\* a plausible slip: the tolerance test dedented out of the elif branch, so
\* that it runs after either branch
ESReturnDedented(v) ==
    IF Improves(v) THEN StopSignal(0)
    ELSE IF NotImproves(v) THEN StopSignal(counter + 1)
    ELSE StopSignal(counter)

\* the value early_stop_check(v) returns
ESReturn(v) ==
    IF Improves(v) THEN FALSE
    ELSE IF NotImproves(v) THEN StopSignal(counter + 1)
    ELSE FALSE

\* the branch early_stop_check(v) takes
Branch(v) ==
    IF Improves(v) THEN "if"
    ELSE IF NotImproves(v) THEN "elif"
    ELSE "none"

\* a plausible slip: the counter not reset by an improvement
ESFieldsNoReset(v) ==
    /\ pre_counter' = counter
    /\ pre_min' = min_validation_loss
    /\ IF Improves(v)
       THEN /\ min_validation_loss' = v
            /\ UNCHANGED counter
       ELSE IF NotImproves(v)
       THEN /\ counter' = counter + 1
            /\ UNCHANGED min_validation_loss
       ELSE UNCHANGED <<counter, min_validation_loss>>
    /\ UNCHANGED <<tolerance, min_delta>>

\* the fields after early_stop_check(v)
ESFields(v) ==
    /\ pre_counter' = counter
    /\ pre_min' = min_validation_loss
    /\ IF Improves(v)
       THEN /\ min_validation_loss' = v
            /\ counter' = 0
       ELSE IF NotImproves(v)
       THEN /\ counter' = counter + 1
            /\ UNCHANGED min_validation_loss
       ELSE UNCHANGED <<counter, min_validation_loss>>
    /\ UNCHANGED <<tolerance, min_delta>>

\* one call early_stop_check(v) made on the object directly, its argument
\* and its return value recorded
EarlyStopCheck(v) ==
    /\ Len(fed) < MaxCalls
    /\ ESFields(v)
    /\ fed' = Append(fed, v)
    /\ rets' = Append(rets, ESReturn(v))
    /\ took' = Append(took, Branch(v))
    /\ UNCHANGED <<splitvars, mainvars>>

InitES ==
    /\ \E tol \in Tolerances, md \in Deltas : ESInit(tol, md)
    /\ SplitIdle
    /\ MainIdle

NextES == \E v \in Losses : EarlyStopCheck(v)

SpecES == InitES /\ [][NextES]_vars

\* ------------------------------------------------- claims on EarlyStopping
Scenario == <<Fin(100), Fin(90), Fin(95), Fin(95), Fin(95)>>
ScenarioStops == <<FALSE, FALSE, FALSE, FALSE, TRUE>>

IsPrefixOf(s, t) == Len(s) <= Len(t) /\ \A i \in 1..Len(s) : s[i] = t[i]
StrictlyDecreasing(s) == \A i \in 1..(Len(s) - 1) : FLt(s[i + 1], s[i])
ConstantSeq(s) == \A i \in 1..Len(s) : s[i] = s[1]
AllFinite(s) == \A i \in 1..Len(s) : IsFin(s[i])
Called == Len(fed) > 0
LastFed == fed[Len(fed)]
LastRet == rets[Len(rets)]

\* C1: on a fresh EarlyStopping(tolerance=3, min_delta=0.0) the losses
\* 1.0, 0.9, 0.95, 0.95, 0.95 fed one by one return False, False, False,
\* False, True: after every prefix of the scenario the returned values are
\* the same prefix of the expected ones.
C1_Scenario ==
    (tolerance = 3 /\ min_delta = Fin(0) /\ IsPrefixOf(fed, Scenario))
        => rets = SubSeq(ScenarioStops, 1, Len(fed))

C1_Witness == tolerance = 3 /\ min_delta = Fin(0) /\ fed = Scenario

\* C2: every call early_stop_check(v) takes one of two transitions: if
\* v + min_delta < min_validation_loss the best loss becomes v, the counter 0
\* and the call returns False; otherwise the counter grows by exactly one and
\* the call returns True iff the new counter >= tolerance.  Initially the best
\* loss is +infinity and the counter 0.
C2_TwoTransitions ==
    /\ ~Called => (min_validation_loss = PosInf /\ counter = 0)
    /\ Called =>
        IF FLt(FAdd(LastFed, min_delta), pre_min)
        THEN min_validation_loss = LastFed /\ counter = 0 /\ LastRet = FALSE
        ELSE /\ counter = pre_counter + 1
             /\ min_validation_loss = pre_min
             /\ LastRet = (counter >= tolerance)

\* C2 for the calls whose argument is not NaN (every such call does take one
\* of the two transitions)
C2_TwoTransitionsNoNaN == (Called /\ IsNaN(LastFed)) \/ C2_TwoTransitions

\* C3 as stated: a strictly decreasing sequence never raises the stop signal,
\* whatever tolerance and min_delta the object was constructed with.
C3_DecreasingNeverStops ==
    StrictlyDecreasing(fed) => \A i \in 1..Len(rets) : rets[i] = FALSE

\* C3 amended: with min_delta <= 0 a strictly decreasing sequence of finite
\* losses never raises the stop signal, for every tolerance.
C3_DecreasingNeverStopsNoMargin ==
    (StrictlyDecreasing(fed) /\ AllFinite(fed) /\ min_delta.num <= 0)
        => \A i \in 1..Len(rets) : rets[i] = FALSE

C3_Witness ==
    /\ StrictlyDecreasing(fed) /\ AllFinite(fed) /\ Len(fed) >= 3
    /\ min_delta.num < 0 /\ tolerance = 1

\* C4 as stated: a constant sequence of length tolerance raises the stop
\* signal on its last (tolerance-th) call and on no earlier one.
C4_ConstantStopsAtTolerance ==
    (tolerance >= 1 /\ Len(fed) = tolerance /\ ConstantSeq(fed))
        => /\ rets[tolerance] = TRUE
           /\ \A i \in 1..(tolerance - 1) : rets[i] = FALSE

\* C4 amended: with tolerance >= 1 and min_delta >= 0, a constant sequence of
\* finite losses has its first value recorded as the best loss, and the stop
\* signal is raised on the tolerance-th repetition of it, that is on call
\* tolerance + 1, and on no earlier call.
C4_ConstantStopsAfterTolerance ==
    (tolerance >= 1 /\ min_delta.num >= 0 /\ ConstantSeq(fed) /\ AllFinite(fed))
        => \A i \in 1..Len(rets) : i <= tolerance + 1 => (rets[i] = (i = tolerance + 1))

C4_Witness ==
    /\ tolerance = 3 /\ min_delta.num >= 0 /\ ConstantSeq(fed) /\ AllFinite(fed)
    /\ Len(fed) = tolerance + 1 /\ LastRet = TRUE

\* the last call's loss improved on the recorded best by less than min_delta
SmallImprovement ==
    /\ Called /\ min_delta.num > 0
    /\ IsFin(pre_min) /\ IsFin(LastFed)
    /\ pre_min.num - min_delta.num < LastFed.num
    /\ LastFed.num < pre_min.num

\* C5: with min_delta = d > 0, a call whose loss improves on the recorded best
\* by less than d (best - d < v < best) counts as non-improving: the counter is
\* incremented and the best loss is left unchanged.
C5_SmallImprovementCounts ==
    SmallImprovement => (counter = pre_counter + 1 /\ min_validation_loss = pre_min)

C5_Witness == SmallImprovement /\ counter = 2

\* ------------------------------------------------------------ 80/20 split
\* int(0.8 * len(trainset)): the product truncated towards zero.  For the
\* sizes of a dataset (below 2^50) the double product 0.8 * n lies within one
\* ulp above 8n/10 and truncates to the same integer.
TrainSize(n) == (8 * n) \div 10

\* a plausible slip: the validation size computed as its own 20% share
ValSizeShare(n, ts) == (2 * n) \div 10

\* val_size = len(trainset) - train_size
ValSize(n, ts) == n - ts

\* the permutations of the indices 0..n-1 (torch.randperm)
Perms(n) == {f \in [1..n -> 0..(n - 1)] : \A a, b \in 1..n : f[a] = f[b] => a = b}

\* random_split(dataset, [train_size, val_size]): consecutive slices of one
\* random permutation of the indices, of the given lengths
Slice(f, from, len) == [k \in 1..len |-> f[from + k]]

\* train_size = int(0.8 * len(trainset)); val_size = len(trainset) - train_size
ComputeSizes ==
    /\ split_pc = "sizes"
    /\ train_size' = TrainSize(total_len)
    /\ val_size' = ValSize(total_len, TrainSize(total_len))
    /\ split_pc' = "split"
    /\ UNCHANGED <<total_len, train_idx, val_idx, esvars, mainvars>>

\* trainset, valset = torch.utils.data.random_split(trainset, [train_size, val_size])
RandomSplit ==
    /\ split_pc = "split"
    /\ \E f \in Perms(total_len) :
        /\ train_idx' = Slice(f, 0, IF train_size <= total_len THEN train_size ELSE total_len)
        /\ val_idx' = Slice(f, train_size,
                            IF train_size + val_size <= total_len
                            THEN val_size ELSE total_len - train_size)
    /\ split_pc' = "done"
    /\ UNCHANGED <<total_len, train_size, val_size, esvars, mainvars>>

InitSplit ==
    /\ total_len \in 0..MaxTotal
    /\ train_size = 0 /\ val_size = 0
    /\ train_idx = <<>> /\ val_idx = <<>>
    /\ split_pc = "sizes"
    /\ ESInit(0, Fin(0))
    /\ MainIdle

NextSplit == ComputeSizes \/ RandomSplit

SpecSplit == InitSplit /\ [][NextSplit]_vars

Range(s) == {s[k] : k \in 1..Len(s)}

\* C8: for every partition size total >= 0 the split computes
\* train_size = floor(0.8 * total) (the integer k with 5k <= 4 total < 5(k+1))
\* and val_size = total - train_size, so the sizes sum to total exactly, and
\* the two index sets are disjoint and together cover every index.
C8_SplitPartition ==
    /\ split_pc \in {"split", "done"} =>
        /\ 5 * train_size <= 4 * total_len
        /\ 4 * total_len < 5 * (train_size + 1)
        /\ train_size + val_size = total_len
    /\ split_pc = "done" =>
        /\ Len(train_idx) = train_size
        /\ Len(val_idx) = val_size
        /\ Cardinality(Range(train_idx)) = train_size
        /\ Cardinality(Range(val_idx)) = val_size
        /\ Range(train_idx) \cap Range(val_idx) = {}
        /\ Range(train_idx) \cup Range(val_idx) = 0..(total_len - 1)

C8_Witness ==
    /\ split_pc = "done" /\ total_len = 4
    /\ train_size = 3 /\ val_size = 1
    /\ val_idx = <<0>>

\* --------------------------------------------------------- train/validate
Variants == {"simple", "soph", "transfer"}
Gated == {"simple", "soph"}

\* CONFIG["epochs"]
Epochs == MaxEpochs

\* what the opaque criterion can yield for a batch of which c predictions
\* are correct: a finite loss that falls with c, or, when none is correct, a
\* diverged loss (inf, NaN)
LossesFor(c) == {Fin(100 - 10 * c)} \cup (IF c = 0 THEN {PosInf, NaN} ELSE {})

\* a plausible slip: the accuracy left as a fraction
AccuracyFraction(c, t) == [kind |-> "fin", num |-> c, den |-> t]

\* 100.0 * correct / total
Accuracy(c, t) == [kind |-> "fin", num |-> 100 * c, den |-> t]

\* the operations of one training batch, in the order of the loop body
TrainOps == <<"zero_grad", "forward", "loss", "backward", "step">>
Op(name) == [op |-> name, batch |-> batch_i]

\* wandb.init(...); wandb.watch(model)
MainStart ==
    /\ pc = "start"
    /\ watched' = TRUE
    /\ pc' = "loop"
    /\ UNCHANGED <<cfgvars, epoch, stopped, sched_steps, modelvars, callvars, resultvars,
                   ckptvars, n_logs, n_uploads, finished, histvars, esvars, splitvars, evalvars>>

\* for epoch in range(CONFIG["epochs"]): the next iteration enters train():
\* model.train(); running_loss = 0.0; correct = 0; total = 0
TrainBegin ==
    /\ pc = "loop" /\ epoch < Epochs
    /\ pc' = "train"
    /\ training' = TRUE
    /\ running_loss' = Fin(0) /\ correct' = 0 /\ total' = 0
    /\ batch_i' = 0 /\ tpc' = "head" /\ oplog' = <<>>
    /\ UNCHANGED <<params, grads, batch_correct, loss, resultvars, mainrest,
                   esvars, splitvars, evalvars>>

\* a plausible slip: the gradients are not cleared before the forward pass
ZeroGradForgotten ==
    /\ pc = "train" /\ tpc = "head" /\ batch_i < n_train
    /\ tpc' = "forward"
    /\ UNCHANGED <<pc, modelvars, batch_i, oplog, running_loss, correct, total,
                   batch_correct, loss, resultvars, mainrest, esvars, splitvars, evalvars>>

\* the loop takes the next batch; optimizer.zero_grad()
ZeroGrad ==
    /\ pc = "train" /\ tpc = "head" /\ batch_i < n_train
    /\ grads' = "none"
    /\ oplog' = Append(oplog, Op("zero_grad"))
    /\ tpc' = "forward"
    /\ UNCHANGED <<pc, params, training, batch_i, running_loss, correct, total,
                   batch_correct, loss, resultvars, mainrest, esvars, splitvars, evalvars>>

\* outputs = model(inputs): the predictions, of which c are correct
Forward ==
    /\ pc = "train" /\ tpc = "forward"
    /\ \E c \in 0..BatchSize : batch_correct' = c
    /\ oplog' = Append(oplog, Op("forward"))
    /\ tpc' = "loss"
    /\ UNCHANGED <<pc, modelvars, batch_i, running_loss, correct, total, loss,
                   resultvars, mainrest, esvars, splitvars, evalvars>>

\* loss = criterion(outputs, labels)
ComputeLoss ==
    /\ pc = "train" /\ tpc = "loss"
    /\ \E l \in LossesFor(batch_correct) : loss' = l
    /\ oplog' = Append(oplog, Op("loss"))
    /\ tpc' = "backward"
    /\ UNCHANGED <<pc, modelvars, batch_i, running_loss, correct, total, batch_correct,
                   resultvars, mainrest, esvars, splitvars, evalvars>>

\* loss.backward(): gradients are added to the buffers
Backward ==
    /\ pc = "train" /\ tpc = "backward"
    /\ grads' = IF grads = "none" THEN "computed" ELSE "accumulated"
    /\ oplog' = Append(oplog, Op("backward"))
    /\ tpc' = "step"
    /\ UNCHANGED <<pc, params, training, batch_i, running_loss, correct, total,
                   batch_correct, loss, resultvars, mainrest, esvars, splitvars, evalvars>>

\* optimizer.step(): the parameters are updated in place
OptimizerStep ==
    /\ pc = "train" /\ tpc = "step"
    /\ params' = params + 1
    /\ oplog' = Append(oplog, Op("step"))
    /\ tpc' = "accum"
    /\ UNCHANGED <<pc, training, grads, batch_i, running_loss, correct, total,
                   batch_correct, loss, resultvars, mainrest, esvars, splitvars, evalvars>>

\* running_loss += loss; total += labels.size(0); correct += ...; next batch
\* (outputs and loss are rebound by the next batch before they are read)
TrainAccumulate ==
    /\ pc = "train" /\ tpc = "accum"
    /\ running_loss' = FAdd(running_loss, loss)
    /\ total' = total + BatchSize
    /\ correct' = correct + batch_correct
    /\ batch_i' = batch_i + 1
    /\ batch_correct' = 0 /\ loss' = Fin(0)
    /\ tpc' = "head"
    /\ UNCHANGED <<pc, modelvars, oplog, resultvars, mainrest, esvars, splitvars, evalvars>>

\* how a call ends over a loader of n batches: the division by len(loader)
\* raises ZeroDivisionError when n = 0
Ended(name, n) ==
    [call |-> name, raised |-> (n = 0), sum |-> running_loss, correct |-> correct,
     total |-> total, batches |-> batch_i]

\* a plausible slip: the return indented into the loop, so that the call can
\* end before the iterator is exhausted
TrainReturnInLoop ==
    /\ pc = "train" /\ tpc = "head" /\ batch_i <= n_train
    /\ IF n_train = 0
       THEN /\ pc' = "crashed"
            /\ UNCHANGED <<train_loss, train_acc>>
       ELSE /\ pc' = "validate"
            /\ train_loss' = FDiv(running_loss, n_train)
            /\ train_acc' = Accuracy(correct, IF total = 0 THEN 1 ELSE total)
    /\ returned' = Ended("train", n_train)
    /\ tpc' = "off"
    /\ running_loss' = Fin(0) /\ correct' = 0 /\ total' = 0 /\ batch_i' = 0
    /\ UNCHANGED <<modelvars, oplog, batch_correct, loss, val_loss, val_acc, last_log,
                   mainrest, esvars, splitvars, evalvars>>

\* the iterator is exhausted: train_loss = running_loss / len(trainloader);
\* train_acc = 100.0 * correct / total; return (the call's locals are gone).
\* Over an empty loader the division raises ZeroDivisionError, which nothing
\* catches.
TrainReturn ==
    /\ pc = "train" /\ tpc = "head" /\ batch_i = n_train
    /\ IF n_train = 0
       THEN /\ pc' = "crashed"
            /\ UNCHANGED <<train_loss, train_acc>>
       ELSE /\ pc' = "validate"
            /\ train_loss' = FDiv(running_loss, n_train)
            /\ train_acc' = Accuracy(correct, total)
    /\ returned' = Ended("train", n_train)
    /\ tpc' = "off"
    /\ running_loss' = Fin(0) /\ correct' = 0 /\ total' = 0 /\ batch_i' = 0
    /\ UNCHANGED <<modelvars, oplog, batch_correct, loss, val_loss, val_acc, last_log,
                   mainrest, esvars, splitvars, evalvars>>

\* validate(): model.eval(); running_loss = 0.0; correct = 0; total = 0
ValBegin ==
    /\ pc = "validate" /\ tpc = "off"
    /\ val_pre' = [params |-> params, training |-> training, grads |-> grads]
    /\ training' = FALSE
    /\ running_loss' = Fin(0) /\ correct' = 0 /\ total' = 0
    /\ batch_i' = 0 /\ tpc' = "head" /\ oplog' = <<>>
    /\ UNCHANGED <<pc, params, grads, batch_correct, loss, resultvars, cfgvars, epoch,
                   stopped, sched_steps, trackervars, ckptvars, max_before, last_acc,
                   saved_last, esvars, splitvars, evalvars>>

\* a plausible slip: the training loop's body pasted into validate
ValBatchTrains ==
    /\ pc = "validate" /\ tpc = "head" /\ batch_i < n_val
    /\ \E c \in 0..BatchSize : \E l \in LossesFor(c) :
        /\ running_loss' = FAdd(running_loss, l)
        /\ correct' = correct + c
    /\ total' = total + BatchSize
    /\ oplog' = oplog \o <<Op("forward"), Op("loss"), Op("backward"), Op("step")>>
    /\ params' = params + 1
    /\ batch_i' = batch_i + 1
    /\ UNCHANGED <<pc, tpc, training, grads, batch_correct, loss, resultvars,
                   mainrest, esvars, splitvars, evalvars>>

\* one batch under torch.no_grad(): outputs = model(inputs);
\* loss = criterion(outputs, labels); the metrics are accumulated
ValBatch ==
    /\ pc = "validate" /\ tpc = "head" /\ batch_i < n_val
    /\ \E c \in 0..BatchSize : \E l \in LossesFor(c) :
        /\ running_loss' = FAdd(running_loss, l)
        /\ correct' = correct + c
    /\ total' = total + BatchSize
    /\ oplog' = oplog \o <<Op("forward"), Op("loss")>>
    /\ batch_i' = batch_i + 1
    /\ UNCHANGED <<pc, tpc, modelvars, batch_correct, loss, resultvars,
                   mainrest, esvars, splitvars, evalvars>>

\* val_loss = running_loss / len(valloader); val_acc = 100.0 * correct / total;
\* return (ZeroDivisionError over an empty loader)
ValReturn ==
    /\ pc = "validate" /\ tpc = "head" /\ batch_i = n_val
    /\ IF n_val = 0
       THEN /\ pc' = "crashed"
            /\ UNCHANGED <<val_loss, val_acc>>
       ELSE /\ pc' = "sched"
            /\ val_loss' = FDiv(running_loss, n_val)
            /\ val_acc' = Accuracy(correct, total)
    /\ returned' = Ended("validate", n_val)
    /\ tpc' = "off"
    /\ running_loss' = Fin(0) /\ correct' = 0 /\ total' = 0 /\ batch_i' = 0
    /\ UNCHANGED <<modelvars, oplog, batch_correct, loss, train_loss, train_acc, last_log,
                   mainrest, esvars, splitvars, evalvars>>

\* ------------------------------------------------------------ main() loop
\* scheduler.step()
SchedulerStep ==
    /\ pc = "sched"
    /\ sched_steps' = sched_steps + 1
    /\ pc' = "log"
    /\ UNCHANGED <<cfgvars, epoch, stopped, modelvars, callvars, resultvars, ckptvars,
                   trackervars, histvars, esvars, splitvars, evalvars>>

\* StepLR(optimizer, step_size=30, gamma=0.1)
StepSize == 30

\* optimizer.param_groups[0]["lr"] after the given number of scheduler steps:
\* the number of times the initial rate has been multiplied by gamma
Lr(steps) == steps \div StepSize

\* a plausible slip: the loop index logged as it is
LogPayloadZeroBased ==
    [epoch |-> epoch, train_loss |-> train_loss, train_acc |-> train_acc,
     val_loss |-> val_loss, val_acc |-> val_acc, lr |-> Lr(sched_steps)]

\* the dictionary handed to wandb.log
LogPayload ==
    [epoch |-> epoch + 1, train_loss |-> train_loss, train_acc |-> train_acc,
     val_loss |-> val_loss, val_acc |-> val_acc, lr |-> Lr(sched_steps)]

\* wandb.log({epoch, train_loss, train_acc, val_loss, val_acc, lr})
WandbLog ==
    /\ pc = "log"
    /\ n_logs' = n_logs + 1
    /\ last_log' = LogPayload
    /\ pc' = "ckpt"
    /\ UNCHANGED <<cfgvars, epoch, stopped, sched_steps, modelvars, callvars,
                   train_loss, train_acc, val_loss, val_acc, returned,
                   ckptvars, watched, n_uploads, finished, histvars, esvars, splitvars, evalvars>>

\* a plausible slip: a tie with the best accuracy counted as a new best
BetterAccOrTie(acc, best) == ~FLt(acc, best)

\* val_acc > best_val_acc
BetterAcc(acc, best) == FLt(best, acc)

\* torch.save(model.state_dict(), "best_model.pth"); wandb.save("best_model.pth")
SaveBest ==
    /\ artifact' = [written |-> TRUE, params |-> params, epoch |-> epoch]
    /\ n_saves' = n_saves + 1
    /\ n_uploads' = n_uploads + 1

\* the larger of two floats
FMax(a, b) == IF FLt(a, b) THEN b ELSE a

\* the history of the epoch that ends: the largest val_acc of the epochs
\* before it (0.0 before the first), its own val_acc, whether it wrote
Record(wrote) ==
    /\ max_before' = IF epoch = 0 THEN Fin(0) ELSE FMax(max_before, last_acc)
    /\ last_acc' = val_acc
    /\ saved_last' = wrote

\* the results of the epoch are not read again before train and validate
\* assign them anew
ForgetResults ==
    /\ train_loss' = Fin(0) /\ train_acc' = Fin(0)
    /\ val_loss' = Fin(0) /\ val_acc' = Fin(0)
    /\ returned' = NoReturn
    /\ last_log' = NoLog

\* simple_cnn, soph_cnn: if val_acc > best_val_acc: best_val_acc = val_acc;
\* save; then the next iteration
CheckpointGated ==
    /\ pc = "ckpt" /\ variant \in Gated
    /\ IF BetterAcc(val_acc, best_val_acc)
       THEN /\ best_val_acc' = val_acc
            /\ SaveBest
            /\ Record(TRUE)
       ELSE /\ Record(FALSE)
            /\ UNCHANGED <<best_val_acc, artifact, n_saves, n_uploads>>
    /\ ForgetResults
    /\ epoch' = epoch + 1
    /\ pc' = "loop"
    /\ UNCHANGED <<cfgvars, stopped, sched_steps, modelvars, callvars, watched, n_logs,
                   finished, val_pre, esvars, splitvars, evalvars>>

\* a plausible slip: the transfer variant gated like the other two
CheckpointAlwaysGated ==
    /\ pc = "ckpt" /\ variant = "transfer"
    /\ IF BetterAcc(val_acc, best_val_acc)
       THEN /\ best_val_acc' = val_acc
            /\ SaveBest
            /\ Record(TRUE)
       ELSE /\ Record(FALSE)
            /\ UNCHANGED <<best_val_acc, artifact, n_saves, n_uploads>>
    /\ pc' = "stopcheck"
    /\ UNCHANGED <<cfgvars, epoch, stopped, sched_steps, modelvars, callvars, resultvars,
                   watched, n_logs, finished, val_pre, esvars, splitvars, evalvars>>

\* transfer_cnn: the save is unconditional (the variant compares no
\* accuracies, and no history of them is kept for it)
CheckpointAlways ==
    /\ pc = "ckpt" /\ variant = "transfer"
    /\ SaveBest
    /\ saved_last' = TRUE
    /\ pc' = "stopcheck"
    /\ UNCHANGED <<cfgvars, epoch, stopped, sched_steps, modelvars, callvars, resultvars,
                   best_val_acc, watched, n_logs, finished, val_pre, max_before, last_acc,
                   esvars, splitvars, evalvars>>

\* a plausible slip: the break forgotten
StopCheckNoBreak ==
    /\ pc = "stopcheck"
    /\ ESFields(val_loss)
    /\ pc' = "loop" /\ epoch' = epoch + 1 /\ UNCHANGED stopped
    /\ ForgetResults
    /\ UNCHANGED <<cfgvars, sched_steps, modelvars, callvars, ckptvars, trackervars,
                   histvars, fed, rets, took, splitvars, evalvars>>

\* transfer_cnn: if early_stopping.early_stop_check(val_loss): break
StopCheck ==
    /\ pc = "stopcheck"
    /\ ESFields(val_loss)
    /\ IF ESReturn(val_loss)
       THEN pc' = "finish" /\ stopped' = TRUE /\ UNCHANGED epoch
       ELSE pc' = "loop" /\ epoch' = epoch + 1 /\ UNCHANGED stopped
    /\ ForgetResults
    /\ UNCHANGED <<cfgvars, sched_steps, modelvars, callvars, ckptvars, trackervars,
                   histvars, fed, rets, took, splitvars, evalvars>>

\* range(CONFIG["epochs"]) is exhausted
LoopExit ==
    /\ pc = "loop" /\ epoch >= Epochs
    /\ pc' = "finish"
    /\ UNCHANGED <<cfgvars, epoch, stopped, sched_steps, modelvars, callvars, resultvars,
                   ckptvars, trackervars, histvars, esvars, splitvars, evalvars>>

\* wandb.finish()
WandbFinish ==
    /\ pc = "finish"
    /\ finished' = TRUE
    /\ pc' = "eval"
    /\ UNCHANGED <<cfgvars, epoch, stopped, sched_steps, modelvars, callvars, resultvars,
                   ckptvars, watched, n_logs, n_uploads, histvars, esvars, splitvars, evalvars>>

\* ------------------------------------------------------- evaluation stage
\* the parameters of a best_model.pth that an earlier run left in the
\* working directory
StaleParams == 0 - 1

\* a plausible slip: the evaluation run on the model as training left it
LoadBestSkipped ==
    /\ pc = "eval"
    /\ \E n \in 0..MaxBatches : n_test' = n
    /\ loaded' = "run"
    /\ pc' = "eval_mode"
    /\ UNCHANGED <<cfgvars, epoch, stopped, sched_steps, modelvars, callvars, resultvars,
                   trackervars, ckptvars, histvars, predictions, clean_accuracy, ood,
                   submission, esvars, splitvars>>

\* evaluate_cifar100_test(model, testloader, device):
\* model.load_state_dict(torch.load("best_model.pth")).  The file is the one
\* this run wrote, or, when this run wrote none, whatever the working
\* directory holds: a file of an earlier run, or nothing (FileNotFoundError).
\* The test loader is not touched before this stage; its length is drawn here.
LoadBest ==
    /\ pc = "eval"
    /\ \E n \in 0..MaxBatches : n_test' = n
    /\ IF artifact.written
       THEN /\ params' = artifact.params
            /\ loaded' = "run"
            /\ pc' = "eval_mode"
       ELSE \/ /\ params' = StaleParams
               /\ loaded' = "stale"
               /\ pc' = "eval_mode"
            \/ /\ pc' = "crashed"
               /\ UNCHANGED <<params, loaded>>
    /\ UNCHANGED <<cfgvars, epoch, stopped, sched_steps, training, grads, callvars,
                   resultvars, trackervars, ckptvars, histvars, predictions,
                   clean_accuracy, ood, submission, esvars, splitvars>>

\* model.eval(); correct = 0; total = 0; predictions = []
EvalMode ==
    /\ pc = "eval_mode"
    /\ training' = FALSE
    /\ correct' = 0 /\ total' = 0 /\ predictions' = <<>> /\ batch_i' = 0
    /\ pc' = "eval_iter"
    /\ UNCHANGED <<cfgvars, epoch, stopped, sched_steps, params, grads, tpc, oplog,
                   running_loss, batch_correct, loss, resultvars, trackervars, ckptvars,
                   histvars, n_test, loaded, clean_accuracy, ood, submission,
                   esvars, splitvars>>

\* the predictions of batch b: one per sample, in the order of the batch;
\* hit says whether the predicted class is the sample's label (the batches
\* are told apart by how many of their predictions hit, c, not by which)
BatchPredictions(b, c) ==
    [k \in 1..BatchSize |-> [sample |-> b * BatchSize + k - 1, hit |-> k <= c]]

\* one batch under torch.no_grad(): outputs = model(inputs);
\* predictions.extend(predicted); total += labels.size(0); correct += ...
EvalBatch ==
    /\ pc = "eval_iter" /\ batch_i < n_test
    /\ \E c \in 0..BatchSize :
        /\ predictions' = predictions \o BatchPredictions(batch_i, c)
        /\ correct' = correct + c
    /\ total' = total + BatchSize
    /\ batch_i' = batch_i + 1
    /\ UNCHANGED <<cfgvars, pc, epoch, stopped, sched_steps, modelvars, tpc, oplog,
                   running_loss, batch_correct, loss, resultvars, trackervars, ckptvars,
                   histvars, n_test, loaded, clean_accuracy, ood, submission,
                   esvars, splitvars>>

\* clean_accuracy = 100.0 * correct / total; return predictions, clean_accuracy
\* (ZeroDivisionError over an empty test loader)
EvalReturn ==
    /\ pc = "eval_iter" /\ batch_i = n_test
    /\ IF total = 0
       THEN pc' = "crashed" /\ UNCHANGED clean_accuracy
       ELSE pc' = "ood" /\ clean_accuracy' = Accuracy(correct, total)
    /\ correct' = 0 /\ total' = 0 /\ batch_i' = 0
    /\ UNCHANGED <<cfgvars, epoch, stopped, sched_steps, modelvars, tpc, oplog,
                   running_loss, batch_correct, loss, resultvars, trackervars, ckptvars,
                   histvars, n_test, loaded, predictions, ood, submission,
                   esvars, splitvars>>

\* all_predictions = eval_ood.evaluate_ood_test(model, CONFIG): the
\* out-of-distribution partition is iterated with the model it is handed
EvaluateOod ==
    /\ pc = "ood"
    /\ ood' = [ran |-> TRUE, params |-> params]
    /\ pc' = "csv"
    /\ UNCHANGED <<cfgvars, epoch, stopped, sched_steps, modelvars, callvars, resultvars,
                   trackervars, ckptvars, histvars, n_test, loaded, predictions,
                   clean_accuracy, submission, esvars, splitvars>>

\* submission_df_ood = eval_ood.create_ood_df(all_predictions);
\* submission_df_ood.to_csv("submission_ood.csv", index=False)
WriteSubmission ==
    /\ pc = "csv"
    /\ submission' = TRUE
    /\ pc' = "done"
    /\ UNCHANGED <<cfgvars, epoch, stopped, sched_steps, modelvars, callvars, resultvars,
                   trackervars, ckptvars, histvars, n_test, loaded, predictions,
                   clean_accuracy, ood, esvars, splitvars>>

\* main() up to wandb.init: the loaders and the model are constructed (a fresh
\* nn.Module is in training mode and has no gradients), best_val_acc = 0.0
\* (simple_cnn, soph_cnn), early_stopping = EarlyStopping(tolerance,
\* min_delta=0.0) (transfer_cnn)
Init ==
    /\ variant \in Variants
    /\ n_train \in 0..MaxBatches
    /\ n_val \in 0..MaxBatches
    /\ pc = "start" /\ epoch = 0 /\ stopped = FALSE
    /\ params = 0 /\ training = TRUE /\ grads = "none"
    /\ batch_i = 0 /\ tpc = "off" /\ oplog = <<>>
    /\ running_loss = Fin(0) /\ correct = 0 /\ total = 0
    /\ batch_correct = 0 /\ loss = Fin(0)
    /\ train_loss = Fin(0) /\ train_acc = Fin(0) /\ val_loss = Fin(0) /\ val_acc = Fin(0)
    /\ returned = NoReturn /\ last_log = NoLog
    /\ best_val_acc = Fin(0) /\ sched_steps = 0
    /\ watched = FALSE /\ n_logs = 0 /\ n_saves = 0 /\ n_uploads = 0 /\ finished = FALSE
    /\ artifact = NoArtifact
    /\ val_pre = NoSnapshot /\ max_before = Fin(0) /\ last_acc = Fin(0) /\ saved_last = FALSE
    /\ EvalIdle
    /\ ESInit(MainTol, Fin(0))
    /\ SplitIdle

Next ==
    \/ MainStart
    \/ TrainBegin
    \/ ZeroGrad
    \/ Forward
    \/ ComputeLoss
    \/ Backward
    \/ OptimizerStep
    \/ TrainAccumulate
    \/ TrainReturn
    \/ ValBegin
    \/ ValBatch
    \/ ValReturn
    \/ SchedulerStep
    \/ WandbLog
    \/ CheckpointGated
    \/ CheckpointAlways
    \/ StopCheck
    \/ LoopExit
    \/ WandbFinish
    \/ LoadBest
    \/ EvalMode
    \/ EvalBatch
    \/ EvalReturn
    \/ EvaluateOod
    \/ WriteSubmission

Spec == Init /\ [][Next]_vars

\* main() is one sequential thread: while a statement remains, the
\* interpreter executes it
SpecFair == Init /\ [][Next]_vars /\ WF_vars(Next)

\* ---------------------------------------------- claims on the training loop
\* the epoch that ended last wrote best_model.pth
WroteLastEpoch == artifact.written /\ artifact.epoch = epoch - 1

\* C6: in the accuracy-gated variants the best-model artifact is overwritten
\* (and uploaded to the tracker) at the end of an epoch if and only if the
\* epoch's validation accuracy is strictly greater than the largest one
\* recorded over the previous epochs (the recorded maximum starts at 0.0); an
\* epoch that only equals the recorded maximum does not overwrite it.
C6_GatedCheckpoint ==
    (variant \in Gated /\ epoch > 0) =>
        /\ saved_last = FLt(max_before, last_acc)
        /\ (pc = "loop" /\ saved_last) =>
                artifact = [written |-> TRUE, params |-> params, epoch |-> epoch - 1]
        /\ ~saved_last => ~WroteLastEpoch
        /\ n_uploads = n_saves

C6_Witness ==
    /\ variant \in Gated /\ pc = "loop" /\ epoch = 2
    /\ max_before.num > 0 /\ max_before = last_acc
    /\ ~saved_last /\ artifact.written /\ artifact.epoch = 0

\* the epochs whose body has run to the checkpoint step
Executed ==
    CASE pc = "stopcheck" -> epoch + 1
      [] pc # "stopcheck" /\ stopped -> epoch + 1
      [] OTHER -> epoch

TrainOpAt(k) == [op |-> TrainOps[((k - 1) % 5) + 1], batch |-> (k - 1) \div 5]
\* the operations of the current batch that precede position p
Offset(p) ==
    CASE p = "head" -> 0
      [] p = "forward" -> 1
      [] p = "loss" -> 2
      [] p = "backward" -> 3
      [] p = "step" -> 4
      [] p = "accum" -> 5
TrainReturned == pc = "validate" /\ tpc = "off"

\* C9: one call to train makes one pass over the iterator and executes for
\* every batch, in this order and once each, zero_grad, forward, loss,
\* backward, optimizer step; no operation of batch k+1 precedes the step of
\* batch k, and the optimizer steps of the call are as many as the batches.
C9_TrainOrder ==
    /\ (pc = "train" \/ TrainReturned) =>
            \A k \in 1..Len(oplog) : oplog[k] = TrainOpAt(k)
    /\ pc = "train" =>
            /\ batch_i <= n_train
            /\ Len(oplog) = 5 * batch_i + Offset(tpc)
            /\ params = epoch * n_train + batch_i + (IF tpc = "accum" THEN 1 ELSE 0)
    /\ TrainReturned =>
            /\ Len(oplog) = 5 * n_train
            /\ Cardinality({k \in 1..Len(oplog) : oplog[k].op = "step"}) = n_train
            /\ params = (epoch + 1) * n_train

C9_Witness ==
    /\ TrainReturned /\ n_train = 2 /\ epoch = 1
    /\ Len(oplog) = 10 /\ oplog[6] = [op |-> "zero_grad", batch |-> 1]

\* validate is running over the loader, has returned, or has raised
InValidate == pc = "validate" /\ tpc = "head"
ValidateReturned == pc = "sched"
ValidateRaised == pc = "crashed" /\ returned.call = "validate" /\ returned.raised

\* C10 as stated: validate leaves the model's state as it found it.
C10_ValidateNoSideEffect ==
    ValidateReturned =>
        [params |-> params, training |-> training, grads |-> grads] = val_pre

\* C10 amended: validate computes no gradient and takes no optimizer step, and
\* leaves the parameters and the gradient buffers as it found them, for any
\* held-out partition (an empty one, on which it raises, included); the
\* training-mode flag it sets to evaluation mode and does not restore.
C10_ValidateKeepsParameters ==
    (InValidate \/ ValidateReturned \/ ValidateRaised) =>
        /\ params = val_pre.params
        /\ grads = val_pre.grads
        /\ training = FALSE
        /\ \A k \in 1..Len(oplog) : oplog[k].op \in {"forward", "loss"}

C10_Witness ==
    /\ ValidateReturned /\ n_val = 2 /\ Len(oplog) = 4
    /\ val_pre.training /\ val_pre.params = 2 /\ val_pre.grads = "computed"
    /\ params = 2

\* the results main() holds of the call that ended last
ResultLoss == IF returned.call = "train" THEN train_loss ELSE val_loss
ResultAcc == IF returned.call = "train" THEN train_acc ELSE val_acc
LoaderLen == IF returned.call = "train" THEN n_train ELSE n_val
CallEnded == returned.call # "none"

\* the running metrics while a call iterates: zero before the first batch,
\* total the number of samples of the batches accumulated so far
MetricsInCall ==
    (pc \in {"train", "validate"} /\ tpc # "off") =>
        /\ (tpc = "head" /\ batch_i = 0) =>
                (running_loss = Fin(0) /\ correct = 0 /\ total = 0)
        /\ total = BatchSize * batch_i
        /\ 0 <= correct /\ correct <= total

\* the running metrics when the pass is over: every batch was iterated, and
\* the finite sum is the sum of the batch losses (a batch of which c
\* predictions are correct has the finite loss 1.0 - 0.1 c)
MetricsAtEnd ==
    /\ returned.batches = LoaderLen
    /\ returned.total = BatchSize * LoaderLen
    /\ 0 <= returned.correct /\ returned.correct <= returned.total
    /\ IsFin(returned.sum) =>
            returned.sum = Fin(100 * returned.batches - 10 * returned.correct)

\* the call returned (mean loss, accuracy) = (sum / batches, 100 correct / total)
ReturnedMeans ==
    /\ ~returned.raised
    /\ IF IsFin(returned.sum)
       THEN /\ IsFin(ResultLoss)
            /\ ResultLoss.num * returned.sum.den * returned.batches
                    = returned.sum.num * ResultLoss.den
       ELSE ResultLoss = returned.sum
    /\ IsFin(ResultAcc)
    /\ ResultAcc.num * returned.total = 100 * returned.correct * ResultAcc.den

\* C11 as stated: the running metrics are zero at the start of every call of
\* train and validate; at the end of the pass the call returns mean loss =
\* summed loss / number of batches and accuracy = 100 * correct / total, with
\* 0 <= correct <= total and total the number of samples iterated, for every
\* iterator, an empty one included.
C11_MetricsEveryIterator ==
    /\ MetricsInCall
    /\ CallEnded => (MetricsAtEnd /\ ReturnedMeans)

\* C11 amended: the same for every non-empty iterator; over an empty iterator
\* the call returns nothing: the division by the number of batches raises
\* ZeroDivisionError, which ends the run.
C11_MetricsNonEmptyIterator ==
    /\ MetricsInCall
    /\ CallEnded =>
        /\ MetricsAtEnd
        /\ IF LoaderLen = 0
           THEN returned.raised /\ pc = "crashed"
           ELSE ReturnedMeans

C11_Witness ==
    /\ returned.call = "validate" /\ ~returned.raised /\ epoch = 1
    /\ returned.batches = 2 /\ returned.correct = 1 /\ returned.total = 2 * BatchSize
    /\ val_loss = [kind |-> "fin", num |-> 190, den |-> 2]

\* ------------------------------------------ claims on the evaluation stage
\* the clean test set is being iterated / has been iterated and returned
EvalIterating == pc = "eval_iter"
EvalReturned == pc \in {"ood", "csv", "done"}
Hits == Cardinality({k \in 1..Len(predictions) : predictions[k].hit})

\* C12: the evaluation stage loads best_model.pth into the model and switches
\* the model to non-training mode before it iterates the clean test set; it
\* appends one prediction per sample in iteration order, so the returned list
\* is as long as the test set and the returned accuracy is 100 * correct /
\* total over those samples; the out-of-distribution evaluation runs after
\* that, with the parameters that were loaded.
C12_EvalOrder ==
    /\ (EvalIterating \/ EvalReturned) =>
        /\ loaded # "no"
        /\ params = (IF artifact.written THEN artifact.params ELSE StaleParams)
        /\ training = FALSE
        /\ \A k \in 1..Len(predictions) : predictions[k].sample = k - 1
    /\ EvalIterating =>
        /\ Len(predictions) = BatchSize * batch_i
        /\ total = Len(predictions)
        /\ correct = Hits
        /\ ~ood.ran
    /\ EvalReturned =>
        /\ Len(predictions) = BatchSize * n_test
        /\ clean_accuracy.num * Len(predictions) = 100 * Hits * clean_accuracy.den
    /\ ood.ran <=> pc \in {"csv", "done"}
    /\ ood.ran => ood.params = params
    /\ pc \notin {"eval_mode", "eval_iter", "ood", "csv", "done"} => predictions = <<>>

C12_Witness ==
    /\ pc = "done" /\ variant \in Gated /\ loaded = "run"
    /\ artifact.epoch = 0 /\ epoch = 2 /\ params = n_train /\ n_train > 0
    /\ n_test = 2 /\ Hits = 1 /\ ood.ran /\ ood.params = params

\* ------------------------------------------------- claims on the tracker
InLoop == pc \in {"loop", "train", "validate", "sched", "log", "ckpt", "stopcheck"}
InEval == pc \in {"eval", "eval_mode", "eval_iter", "ood", "csv", "done"}
LogKeys == {"epoch", "train_loss", "train_acc", "val_loss", "val_acc", "lr"}

\* the tracker calls made so far, by position in main()
TrackerState ==
    /\ watched <=> pc # "start"
    /\ pc \in {"start", "loop", "train", "validate", "sched", "log"} =>
            (n_logs = epoch /\ last_log = NoLog)
    /\ pc \in {"ckpt", "stopcheck"} =>
            /\ n_logs = epoch + 1
            /\ DOMAIN last_log = LogKeys
            /\ last_log.epoch = epoch + 1
            /\ last_log.train_loss = train_loss /\ last_log.train_acc = train_acc
            /\ last_log.val_loss = val_loss /\ last_log.val_acc = val_acc
            /\ last_log.lr = Lr(sched_steps)
            /\ returned.call = "validate" /\ ~returned.raised
            /\ sched_steps = epoch + 1
    /\ (pc = "finish" \/ InEval) => n_logs = Executed
    /\ (pc = "start" \/ InLoop \/ pc = "finish") => ~finished
    /\ InEval => finished

\* the tracker calls one step makes
TrackerSteps ==
    /\ watched' # watched => (pc = "start" /\ watched')
    /\ n_logs' # n_logs => (pc = "log" /\ n_logs' = n_logs + 1)
    /\ n_uploads' # n_uploads =>
            /\ pc = "ckpt"
            /\ n_uploads' = n_uploads + 1
            /\ n_saves' = n_saves + 1
            /\ artifact' = [written |-> TRUE, params |-> params, epoch |-> epoch]
    /\ finished' # finished => (pc = "finish" /\ finished')
    /\ finished => UNCHANGED trackervars

\* C13: in every variant the model is registered with the tracker (watch) once
\* at startup, before the first epoch; every executed epoch makes exactly one
\* logging call, with the keys epoch, train_loss, train_acc, val_loss,
\* val_acc, lr, after its training, validation and schedule step; the
\* artifact is uploaded only at checkpoint time, with the save; and finish is
\* called once when the loop is left, by the epoch limit or by the
\* early-stopping break, after which no tracker call is made.
C13_TrackerProtocol == []TrackerState /\ [][TrackerSteps]_vars

C13_Witness ==
    /\ variant = "transfer" /\ stopped /\ pc = "done" /\ epoch = 1
    /\ watched /\ n_logs = 2 /\ n_uploads = 2 /\ finished

\* --------------------------------------- claims on the order of the stages
\* the parameters the optimizer steps of e whole training passes produce
AfterEpochs(e) == e * n_train

\* the stages as the state shows them: every optimizer step of the epoch's
\* training pass precedes its validation, the validation of the epoch has
\* returned when its checkpoint is taken (which stores the parameters the
\* validation read), and the evaluation stage finds the loop left
StagesInOrder ==
    /\ tpc # "off" => pc \in {"train", "validate"}
    /\ pc = "train" => returned.call = "none"
    /\ pc = "validate" =>
            /\ params = AfterEpochs(epoch + 1)
            /\ returned.call = "train"
            /\ tpc # "off" => val_pre.params = params
    /\ pc \in {"sched", "log", "ckpt", "stopcheck"} =>
            /\ returned.call = "validate"
            /\ val_pre.params = params
            /\ params = AfterEpochs(epoch + 1)
    /\ artifact.written => artifact.params = AfterEpochs(artifact.epoch + 1)
    /\ InEval =>
            /\ finished /\ tpc = "off" /\ returned.call = "none"
            /\ (stopped \/ epoch = Epochs)
            /\ n_saves <= Executed

\* only the optimizer step of a training pass writes the parameters
OnlyTrainingWrites ==
    params' # params => (pc = "train" /\ tpc = "step")

\* the parameters are written by the optimizer step of a training pass and
\* by the load of the evaluation stage, by nothing else
TrainingAndLoadWrite ==
    params' # params => ((pc = "train" /\ tpc = "step") \/ pc = "eval")

\* C14 as stated: the training loop is the only writer of the parameters,
\* and the stages follow one another as described.
C14_SingleWriter == []StagesInOrder /\ [][OnlyTrainingWrites]_vars

\* C14 amended: the parameters are written by the optimizer steps of the
\* training loop and, after the loop has exited, by the evaluation stage when
\* it loads best_model.pth; validation starts after the last optimizer step of
\* the epoch's training pass, the checkpoint of an epoch is taken after its
\* validation, the evaluation stage starts after the loop has exited, and no
\* stage reads the parameters while another writes them.
C14_StagesSequential == []StagesInOrder /\ [][TrainingAndLoadWrite]_vars

C14_Witness ==
    /\ pc = "eval_iter" /\ variant \in Gated /\ loaded = "run"
    /\ epoch = Epochs /\ artifact.epoch = 0 /\ n_train = 2
    /\ params = AfterEpochs(1)

\* ------------------------------------------- claims on the stop signal
\* the call before the last one raised the stop signal
StopRaisedBefore == Len(rets) >= 2 /\ rets[Len(rets) - 1] = TRUE

\* C15: the stop signal is not a terminal state: a call made after a call
\* that returned True is accepted like any other; if its value improves
\* (v + min_delta < min_validation_loss) the counter is reset to 0 and the call
\* returns False, and otherwise the call returns True again.
C15_StopNotTerminal ==
    StopRaisedBefore =>
        IF FLt(FAdd(LastFed, min_delta), pre_min)
        THEN counter = 0 /\ min_validation_loss = LastFed /\ LastRet = FALSE
        ELSE LastRet = TRUE

\* C15 for the calls whose argument is not NaN
C15_StopNotTerminalNoNaN == (Called /\ IsNaN(LastFed)) \/ C15_StopNotTerminal

\* a call after the stop signal that resets the object
C15_Reset ==
    /\ StopRaisedBefore /\ tolerance = 2 /\ counter = 0 /\ LastRet = FALSE
    /\ IsFin(LastFed)

\* ---------------------------------------- claims on the recorded best loss
\* m is the least of the losses of s (+infinity when there is none)
IsLeast(m, s) ==
    /\ \A i \in 1..Len(s) : ~FLt(s[i], m)
    /\ m = PosInf \/ \E i \in 1..Len(s) : s[i] = m
\* the last call that improved (0: none did)
LastImproving ==
    IF \E i \in 1..Len(took) : took[i] = "if"
    THEN CHOOSE i \in 1..Len(took) :
            took[i] = "if" /\ \A j \in (i + 1)..Len(took) : took[j] # "if"
    ELSE 0
NoNaNFed == \A i \in 1..Len(fed) : ~IsNaN(fed[i])
NeverIncreased == Called => ~FLt(pre_min, min_validation_loss)

\* C16 as stated, for the sequences of losses that are numbers (a NaN has no
\* place in a minimum): with min_delta >= 0, after any sequence of calls the
\* recorded best loss has not increased, is the minimum of all losses passed,
\* and the counter is the number of calls made since the last improving one.
C16_BestIsMinimum ==
    (min_delta.num >= 0 /\ NoNaNFed) =>
        /\ NeverIncreased
        /\ IsLeast(min_validation_loss, fed)
        /\ counter >= 0
        /\ counter = Len(fed) - LastImproving

\* C16 amended: with min_delta >= 0 the recorded best loss never increases; it
\* is +infinity until a call improves and then the loss of the last improving
\* call, which no loss passed undercuts by more than min_delta; with
\* min_delta = 0 and no NaN passed it is the minimum of all losses passed.
\* The counter is the number of calls since the last improving one that took
\* the non-improving branch; a NaN loss takes neither branch.
C16_BestWithinMargin ==
    min_delta.num >= 0 =>
        /\ NeverIncreased
        /\ IF LastImproving = 0
           THEN min_validation_loss = PosInf
           ELSE min_validation_loss = fed[LastImproving]
        /\ \A i \in 1..Len(fed) :
                /\ ~FLt(FAdd(fed[i], min_delta), min_validation_loss)
                /\ took[i] = "none" <=> IsNaN(fed[i])
        /\ (min_delta.num = 0 /\ NoNaNFed) => IsLeast(min_validation_loss, fed)
        /\ counter >= 0
        /\ counter = Cardinality({i \in (LastImproving + 1)..Len(took) : took[i] = "elif"})

C16_Witness ==
    /\ min_delta.num > 0 /\ fed = <<Fin(100), Fin(95), NaN, Fin(90)>>
    /\ min_validation_loss = Fin(100) /\ counter = 2

\* ------------------------------------------- claims on the best artifact
\* the largest validation accuracy of the epochs finished so far
MaxObserved == FMax(max_before, last_acc)
\* the loop has been left (finish is called right after it)
LoopLeft == pc = "finish" \/ finished
\* the artifact is of this run: written by the checkpoint step of an epoch
\* whose accuracy was above that of every epoch before it, holding the
\* parameters that epoch's training produced
ArtifactOfRun ==
    /\ artifact.written
    /\ artifact.epoch < epoch
    /\ artifact.params = AfterEpochs(artifact.epoch + 1)
    /\ saved_last <=> artifact.epoch = epoch - 1
    /\ saved_last <=> FLt(max_before, last_acc)

\* C17: in the accuracy-gated variants, after each epoch best_val_acc is the
\* largest validation accuracy observed so far; when the loop exits,
\* best_model.pth has been written during this run and holds the parameters
\* of the earliest epoch that attained that maximum, and the evaluation stage
\* loads parameters this run produced.
C17_BestArtifactOfRun ==
    variant \in Gated =>
        /\ (epoch > 0 /\ (pc = "loop" \/ LoopLeft)) => best_val_acc = MaxObserved
        /\ LoopLeft => ArtifactOfRun
        /\ pc \in {"eval_mode", "eval_iter", "ood", "csv", "done"} =>
                (loaded = "run" /\ params = artifact.params)

\* C17 for the runs in which some epoch has a validation accuracy above 0.0
C17_BestArtifactIfPositive ==
    (LoopLeft /\ best_val_acc = Fin(0)) \/ C17_BestArtifactOfRun

\* every epoch of the run had the validation accuracy 0.0: nothing was
\* written, and the evaluation stage loads a file of another run
C17_NothingWritten ==
    /\ variant \in Gated /\ pc = "eval_iter" /\ epoch = Epochs
    /\ best_val_acc = Fin(0) /\ ~artifact.written /\ n_saves = 0
    /\ loaded = "stale" /\ params = StaleParams

\* ------------------------------------------------- claims on termination
\* main() builds its loaders over 40,000 and 10,000 samples: neither is empty
LoadersNonEmpty == n_train > 0 /\ n_val > 0

\* the epochs executed, by position in main()
EpochCount ==
    /\ epoch <= Epochs /\ Executed <= Epochs
    /\ stopped => (variant = "transfer" /\ LoopLeft /\ counter >= tolerance)
    /\ LoopLeft =>
            /\ n_logs = Executed
            /\ sched_steps = Executed
            /\ params = AfterEpochs(Executed) \/ loaded # "no"
            /\ ~stopped => epoch = Epochs

\* the stop check halts the loop on the first True it gets, and nothing of
\* the loop runs after it; the other variants never halt early
StopSteps ==
    /\ pc = "stopcheck" =>
            IF counter' = counter + 1 /\ counter' >= tolerance
            THEN stopped' /\ pc' = "finish" /\ epoch' = epoch
            ELSE ~stopped' /\ pc' = "loop" /\ epoch' = epoch + 1
    /\ stopped =>
            /\ UNCHANGED <<epoch, n_logs, n_saves, n_uploads, sched_steps, oplog, esvars>>
            /\ pc' \notin {"loop", "train", "validate", "sched", "log", "ckpt", "stopcheck"}
    /\ LoopLeft => (pc' = "crashed" \/ pc' = "finish" \/ pc' \in
                        {"eval", "eval_mode", "eval_iter", "ood", "csv", "done"})

\* the statements one epoch executes at most, and those that remain once the
\* loop is left
EpochSteps == 6 * n_train + n_val + 8
TailSteps == MaxBatches + 7
\* an upper bound of the statements main() has yet to execute
Rank ==
    LET after == (Epochs - epoch - 1) * EpochSteps + TailSteps + 1
    IN  CASE pc = "start" -> Epochs * EpochSteps + TailSteps + 2
          [] pc = "loop" -> after + EpochSteps
          [] pc = "train" -> after + 7 + n_val + 6 * (n_train - batch_i) - Offset(tpc)
          [] pc = "validate" /\ tpc = "off" -> after + 6 + n_val
          [] pc = "validate" /\ tpc # "off" -> after + 5 + (n_val - batch_i)
          [] pc = "sched" -> after + 4
          [] pc = "log" -> after + 3
          [] pc = "ckpt" -> after + 2
          [] pc = "stopcheck" -> after + 1
          [] pc = "finish" -> TailSteps
          [] pc = "eval" -> TailSteps - 1
          [] pc = "eval_mode" -> n_test + 5
          [] pc = "eval_iter" -> 4 + (n_test - batch_i)
          [] pc = "ood" -> 3
          [] pc = "csv" -> 2
          [] pc = "done" -> 1
          [] pc = "crashed" -> 0

\* main() stops only at its end or on an uncaught exception, and with
\* non-empty loaders nothing raises before the evaluation stage
StopsOnlyAtEnd ==
    /\ Rank >= 0
    /\ pc \notin {"done", "crashed"} => ENABLED Next
    /\ (pc \in {"done", "crashed"} /\ LoadersNonEmpty) => finished

\* C18: the training loop terminates and the evaluation stage is reached
\* (every step of main() lowers a bound on the steps that remain, and it
\* stops nowhere before the evaluation stage); at most CONFIG["epochs"]
\* epochs are executed; in the transfer variant the loop is left after the
\* first epoch whose early_stop_check returns True (that epoch is the last
\* one executed) or, if there is none, after CONFIG["epochs"] epochs, and no
\* train, validate, log or checkpoint action follows the stop signal; the
\* two other variants execute exactly CONFIG["epochs"] epochs.
C18_LoopTerminates ==
    /\ []EpochCount
    /\ []StopsOnlyAtEnd
    /\ [][StopSteps /\ Rank' < Rank]_vars

\* the same end as a liveness property of the fair specification
C18_ReachesEvaluation == LoadersNonEmpty => <>(pc = "eval")

C18_Witness ==
    /\ variant = "transfer" /\ stopped /\ pc = "eval" /\ epoch = 0
    /\ n_logs = 1 /\ n_saves = 1 /\ n_train = 2

====
